---- MODULE Spec2Model ----
(***************************************************************************)
(* Model of scripts/update_data.py: one batch pipeline (main) that loads   *)
(* posts.json / shows.json / brands.json, harvests one feed per brand,     *)
(* deduplicates on the resolved URL, prepends the new posts to posts.json  *)
(* and rewrites _meta.json.                                                *)
(*                                                                         *)
(* Text values (str) are sequences of string tokens; "" is <<>>.  Python's *)
(* None is the one-token sequence None.  A JSON document is a record       *)
(* [kind, items]; dict items of a list are records carrying their keys.    *)
(***************************************************************************)
EXTENDS Integers, Sequences, FiniteSets, TLC

\* update_data.py:15
MAX_ITEMS_PER_BRAND == 8

\* Bounds of the model.
MaxRuns == 2
MaxArticles == 10

----------------------------------------------------------------------------
\* Python values

None == <<"None">>

\* bool(x) for the str / tuple / None values of the model
Truthy(x) == x # None /\ x # <<>>

\* Python's `a or b`
Or(a, b) == IF Truthy(a) THEN a ELSE b

\* the characters str.isspace() accepts, which str.strip() removes; those TLA+
\* has no escape for are spelt as their Python escapes
Whitespace ==
    {" ", "\t", "\n", "\r", "\f", "\\x0b", "\\x1c", "\\x1d", "\\x1e", "\\x1f",
     "\\x85", "\\xa0", "\\u1680", "\\u2000", "\\u2001", "\\u2002", "\\u2003",
     "\\u2004", "\\u2005", "\\u2006", "\\u2007", "\\u2008", "\\u2009",
     "\\u200a", "\\u2028", "\\u2029", "\\u202f", "\\u205f", "\\u3000"}

RECURSIVE lstrip(_)
lstrip(s) ==
    IF s # <<>> /\ Head(s) \in Whitespace THEN lstrip(Tail(s)) ELSE s

RECURSIVE rstrip(_)
rstrip(s) ==
    IF s # <<>> /\ s[Len(s)] \in Whitespace
    THEN rstrip(SubSeq(s, 1, Len(s) - 1))
    ELSE s

\* str.strip()
strip(s) == rstrip(lstrip(s))

\* str.startswith(prefix)
startswith(s, prefix) ==
    Len(s) >= Len(prefix) /\ SubSeq(s, 1, Len(prefix)) = prefix

\* `needle in s` for a one-token needle
Contains(s, needle) == \E i \in DOMAIN s : s[i] = needle

\* dict.get(key): None when the key is missing
Get(d, key) == IF key \in DOMAIN d THEN d[key] ELSE None

\* getattr(obj, name, default)
GetAttr(obj, name, default) == IF name \in DOMAIN obj THEN obj[name] ELSE default

\* isinstance(x, dict) for an item of a JSON list
IsDict(x) == "__nondict__" \notin DOMAIN x

NonDict == [__nondict__ |-> <<"5">>]

----------------------------------------------------------------------------
\* JSON documents and files

Absent == [kind |-> "absent", items |-> <<>>]
Invalid == [kind |-> "invalid", items |-> <<>>]
List(items) == [kind |-> "list", items |-> items]
Dict(keys) == [kind |-> "dict", items |-> keys]
Scalar == [kind |-> "scalar", items |-> <<>>]
Object(rec) == [kind |-> "object", items |-> <<rec>>]

\* load_json raises (json.load on a file that is not JSON)
LoadRaises(file) == file.kind = "invalid"

\* load_json(name, default)
load_json(file, default) == IF file.kind = "absent" THEN default ELSE file

\* iterating the value raises TypeError (int, float, bool, None)
NotIterable(v) == v.kind = "scalar"

\* len(v) raises TypeError
NoLen(v) == v.kind = "scalar"

\* len(v)
PyLen(v) == Len(v.items)

----------------------------------------------------------------------------
\* Dates

\* a number zero-padded to `width` digits, as %m and %d of strftime and the
\* fields of isoformat() are
Pad(n, width) ==
    LET s == ToString(n)
    IN  IF width = 4
        THEN (IF n < 10 THEN "000" ELSE IF n < 100 THEN "00"
              ELSE IF n < 1000 THEN "0" ELSE "") \o s
        ELSE (IF n < 10 THEN "0" ELSE "") \o s

\* %Y of strftime: the C library of this platform does not pad the year
Year(n) == ToString(n)

\* dt.strftime("%Y-%m-%d") of a datetime <<Y, M, D, h, m, s>>
iso_to_ymd(dt) == <<Year(dt[1]), "-", Pad(dt[2], 2), "-", Pad(dt[3], 2)>>

\* the number of days of month m of year y
DaysIn(y, m) ==
    IF m = 2
    THEN (IF y % 4 = 0 /\ (y % 100 # 0 \/ y % 400 = 0) THEN 29 ELSE 28)
    ELSE IF m \in {4, 6, 9, 11} THEN 30 ELSE 31

\* datetime.datetime(Y, M, D, h, m, s) accepts the fields
ValidDate(tm) ==
    /\ tm[1] \in 1..9999
    /\ tm[2] \in 1..12
    /\ tm[3] \in 1..DaysIn(tm[1], tm[2])
    /\ tm[4] \in 0..23
    /\ tm[5] \in 0..59
    /\ tm[6] \in 0..59

\* the ValueError datetime.datetime raises on fields it rejects
ValueError == <<"ValueError">>

\* parse_entry_date(entry): None, or the day of published_parsed /
\* updated_parsed, or the exception of line 57
parse_entry_date(entry) ==
    LET tm == IF Truthy(Get(entry, "published_parsed"))
              THEN entry.published_parsed
              ELSE IF Truthy(Get(entry, "updated_parsed"))
                   THEN entry.updated_parsed
                   ELSE None
    IN  IF ~Truthy(tm) THEN None
        ELSE IF ~ValidDate(tm) THEN ValueError
        ELSE iso_to_ymd(SubSeq(tm, 1, 6))

\* datetime.datetime.now(utc) on day `day` of the model's calendar
Now(day) == <<2025, 3, day, 6, 0, 0>>

----------------------------------------------------------------------------
\* Identity

\* slug_id(s): the first 16 hex digits of SHA-1(s), a value determined by s
slug_id(s) == <<"sha1[:16]">> \o s

----------------------------------------------------------------------------
\* The network: what the upstream answers.  The web is a function of the
\* URL and of the network condition `net`; a feed is one of FeedKeys.

ArticleIds == 1..MaxArticles

\* the link a feed entry carries for article i, and the article's own URL
Link(i) == <<"gn/", ToString(i)>>
Site(i) == <<"site/", ToString(i)>>

IdxOf(url) == CHOOSE i \in ArticleIds : url[2] = ToString(i)
IsLink(url) == url[1] = "gn/"

NoTag == <<"NoTag">>

Response(raises, url, ok, ctype, ogp, ogn) ==
    [raises |-> raises, url |-> url, ok |-> ok, content_type |-> ctype,
     og_property |-> ogp, og_name |-> ogn]

Html == <<"text/html", "; charset=utf-8">>
Image(i) == <<"http", "s://cdn/", ToString(i), ".jpg">>

\* the page served at a URL of article i (status, Content-Type, og:image tags)
Page(i, url) ==
    CASE i % 8 = 1 -> Response(FALSE, url, TRUE, Html,
                             <<" ">> \o Image(i) \o <<"\r", "\n">>, NoTag)
      [] i % 8 = 2 -> Response(TRUE, url, FALSE, None, NoTag, NoTag)
      [] i % 8 = 3 -> Response(FALSE, url, FALSE, Html, Image(i), NoTag)
      [] i % 8 = 4 -> Response(FALSE, url, TRUE, <<"application/pdf">>, Image(i), NoTag)
      [] i % 8 = 5 -> Response(FALSE, url, TRUE, Html, NoTag, NoTag)
      [] i % 8 = 6 -> Response(FALSE, url, TRUE, Html, NoTag, <<"/img/", ToString(i)>>)
      [] i % 8 = 7 -> Response(FALSE, url, TRUE, Html, NoTag, Image(i))
      [] OTHER     -> Response(FALSE, url, TRUE, None, Image(i), NoTag)

NetModes == {"direct", "flaky"}

\* SESSION.get(url, allow_redirects=True): the response, or an exception
SessionGet(net, url) ==
    LET i == IdxOf(url)
    IN  IF ~IsLink(url) THEN Page(i, url)
        ELSE IF net = "direct" THEN Page(i, Site(i))
        ELSE CASE i % 4 = 1 -> Page(i, Site(i))
               [] i % 4 = 2 -> Page(i - 1, Site(i - 1))
               [] i % 4 = 3 -> Response(TRUE, None, FALSE, None, NoTag, NoTag)
               [] OTHER     -> [Page(i, url) EXCEPT !.url = <<>>]

\* the redirect never followed
ResolveKeepsLink(url, r) == url

\* resolve_final_url(url), r the outcome of SESSION.get(url)
resolve_final_url(url, r) == IF r.raises THEN url ELSE Or(r.url, url)

\* try_get_og_image(url), r the outcome of SESSION.get(url)
try_get_og_image(r) ==
    IF r.raises THEN None
    ELSE IF ~r.ok \/ ~Contains(Or(r.content_type, <<>>), "text/html") THEN None
    ELSE LET tag == IF r.og_property # NoTag THEN r.og_property ELSE r.og_name
         IN  IF tag # NoTag /\ Truthy(tag)
             THEN LET img == strip(tag)
                  IN  IF startswith(img, <<"http">>) THEN img ELSE None
             ELSE None

\* normalize_brand_query(name)
normalize_brand_query(name) ==
    name \o <<" (runway OR collection OR show OR \"fashion week\")">>

\* quote_plus, token by token (brand names are alphanumeric)
quote_plus(s) ==
    [i \in DOMAIN s |->
        IF s[i] = " (runway OR collection OR show OR \"fashion week\")"
        THEN "+%28runway+OR+collection+OR+show+OR+%22fashion+week%22%29"
        ELSE s[i]]

\* google_news_rss_url(query) with the default hl, gl, ceid
google_news_rss_url(query) ==
    <<"https://news.google.com/rss/search?q=">> \o quote_plus(query)
        \o <<"&hl=", "en-US", "&gl=", "US", "&ceid=", "US:en">>

\* time.struct_time
StructTime(y, m, d) == <<y, m, d, 10, 30, 0, 0, 0, 0>>

\* the feed entry of article i: title, link, published / updated when present
Article(i) ==
    LET base == [title |-> IF i % 3 = 0 THEN <<"\r", " ", "T", ToString(i), "\\xa0", "\n">>
                           ELSE <<"T", ToString(i)>>,
                 link  |-> IF i % 5 = 0 THEN <<" ">> \o Link(i) ELSE Link(i)]
        pub == StructTime(2025, 2, i)
        upd == StructTime(2025, 2, i + 10)
    IN  CASE i % 4 = 1 -> [title |-> base.title, link |-> base.link,
                           published_parsed |-> pub]
          [] i % 4 = 2 -> [title |-> base.title, link |-> base.link,
                           published_parsed |-> pub, updated_parsed |-> upd]
          [] i % 4 = 3 -> [title |-> base.title, link |-> base.link,
                           published_parsed |-> None, updated_parsed |-> upd]
          [] OTHER     -> base

\* entries without a usable title or link
Junk == << [title |-> <<" ", "\t", "\f">>, link |-> Link(1)],
           [title |-> <<"T", "0">>],
           [title |-> None, link |-> <<>>] >>

\* an entry whose timestamp is a leap second: time.struct_time holds it,
\* datetime.datetime rejects it
BadDate == [title |-> <<"T", "L">>, link |-> Link(6),
            published_parsed |-> <<2025, 2, 1, 23, 59, 60, 5, 32, 0>>]

\* an empty feed, a short one, one that fills the cap exactly, one longer than
\* the cap that starts with unusable entries, one with a single entry that has
\* no timestamp, and one that ends with the leap-second entry
FeedKeys == {[junk |-> FALSE, first |-> 1, n |-> 0, bad |-> FALSE],
             [junk |-> FALSE, first |-> 1, n |-> 2, bad |-> FALSE],
             [junk |-> FALSE, first |-> 1, n |-> MAX_ITEMS_PER_BRAND, bad |-> FALSE],
             [junk |-> TRUE, first |-> 1, n |-> MaxArticles, bad |-> FALSE],
             [junk |-> FALSE, first |-> 4, n |-> 4, bad |-> FALSE],
             [junk |-> FALSE, first |-> 4, n |-> 4, bad |-> TRUE]}

\* feed.entries of the feed a key names
Entries(key) ==
    (IF key.junk THEN Junk ELSE <<>>)
        \o [i \in 1..(key.n - key.first + 1) |-> Article(key.first + i - 1)]
        \o (IF key.bad THEN <<BadDate>> ELSE <<>>)

BrandNames == {<<"Acme">>, <<"Bolt">>}
RssUrls == {google_news_rss_url(normalize_brand_query(n)) : n \in BrandNames}

\* the feeds the upstream may serve for a search: the one-entry feed comes up
\* for Acme only, the feed with the leap-second entry for Bolt only
FeedsFor(rss) ==
    IF rss = google_news_rss_url(normalize_brand_query(<<"Acme">>))
    THEN {k \in FeedKeys : ~k.bad}
    ELSE {k \in FeedKeys : k.bad \/ k.first = 1}

----------------------------------------------------------------------------
\* State

VARIABLES
    \* the data directory
    posts_json, shows_json, brands_json, meta_json,
    \* the upstream: network condition, the feed served per RSS URL, the day
    net, feedOf, clock,
    \* main()'s position and locals
    pc, posts, shows, brands, existing_urls, brand_items, new_posts, now_ymd,
    bi, entries, ei, picked,
    \* what the run did: save_json calls, outbound requests, where it raised
    writes, requests, abort_at,
    \* history: number of runs, the files as the run found them, for each post
    \* of new_posts the brand position and entry it came from, len(new_posts)
    \* when the current brand's feed arrived, whether a brand loop hit `break`,
    \* and the previous run's outcome
    runs, posts_before, meta_before, origin, mark, cut, changed, prev

vars == <<posts_json, shows_json, brands_json, meta_json, net, feedOf, clock,
          pc, posts, shows, brands, existing_urls, brand_items, new_posts,
          now_ymd, bi, entries, ei, picked, writes, requests, abort_at,
          runs, posts_before, meta_before, origin, mark, cut, changed, prev>>

disk == <<posts_json, shows_json, brands_json, meta_json>>
upstream == <<net, feedOf>>
locals == <<posts, shows, brands, existing_urls, brand_items, new_posts,
            now_ymd, bi, entries, ei, picked>>

Unfetched == [junk |-> FALSE, first |-> 1, n |-> -1, bad |-> FALSE]

\* the elements a `for` loop over a loaded JSON value yields: the items of a
\* list, the keys (str) of an object
Iter(v) == IF v.kind = "list" THEN v.items ELSE [i \in DOMAIN v.items |-> NonDict]

\* the files of DATA_DIR, by name
Dir ==
    [name \in {"posts.json", "shows.json", "brands.json", "_meta.json"} |->
        CASE name = "posts.json"  -> posts_json
          [] name = "shows.json"  -> shows_json
          [] name = "brands.json" -> brands_json
          [] OTHER                -> meta_json]

\* json.dump(obj, f, ensure_ascii=False) into a UTF-8 file can encode every
\* string of obj: none holds a lone surrogate (the numbers and the timestamp
\* of the metadata always can)
Encodable(obj) ==
    \/ obj.kind = "object"
    \/ \A i \in DOMAIN obj.items : \A f \in DOMAIN obj.items[i] :
          ~Contains(obj.items[i][f], "\\ud800")

\* every file written into its own place
SaveOverShows(name, obj) ==
    [f \in DOMAIN Dir |-> IF f \in {name, "shows.json"} THEN obj ELSE Dir[f]]

\* save_json(name, obj): DATA_DIR after the call.  open(path, "w") truncates
\* the file and json.dump streams into it: when the dump raises, what is left
\* is not a JSON document
save_json(name, obj) ==
    [f \in DOMAIN Dir |->
        IF f = name THEN (IF Encodable(obj) THEN obj ELSE Invalid) ELSE Dir[f]]

\* DATA_DIR becomes d
Stored(d) ==
    /\ posts_json' = d["posts.json"]
    /\ shows_json' = d["shows.json"]
    /\ brands_json' = d["brands.json"]
    /\ meta_json' = d["_meta.json"]

----------------------------------------------------------------------------
\* Documents the data directory can hold before the first run

BrandA == [id |-> <<"b1">>, name |-> <<"Acme">>]
BrandB == [id |-> <<"b2">>, name |-> <<"Bolt">>, country |-> <<"IT">>]
BrandNoName == [id |-> <<"b3">>]
BrandEmptyId == [id |-> <<>>, name |-> <<"Acme">>]

\* posts of an earlier version of the dataset: a current post, one that keeps
\* its URL under the legacy key, one without URL
OldPosts ==
    << [id |-> slug_id(Site(1)), brandId |-> <<"b1">>, title |-> <<"T", "1">>,
        date |-> <<"2025", "-", "01", "-", "05">>, city |-> None,
        season |-> None, heroImageUrl |-> None, sourceUrl |-> Site(1),
        media |-> <<>>],
       [id |-> <<"x2">>, title |-> <<"old">>, source_url |-> Site(3)],
       [id |-> <<"x3">>, title |-> <<"draft">>, sourceUrl |-> <<>>] >>

GoodPosts == {Absent, List(<<>>), List(OldPosts)}

\* a store json.load reads (the title is written "\\ud800" in the file) and
\* json.dump cannot write back
UnsavablePosts ==
    List(<< [id |-> <<"x9">>, title |-> <<"bad ", "\\ud800", " title">>,
             sourceUrl |-> Site(9)] >>)
BadPosts == {Invalid, Scalar, Dict(<<>>), Dict(<<[key |-> <<"posts">>]>>),
             List(<<OldPosts[1], NonDict>>)}

ShowsList == List(<<[id |-> <<"s1">>], [id |-> <<"s2">>]>>)
BadShows == {Invalid, Scalar}

GoodBrands == {Absent, List(<<BrandA>>), List(<<BrandA, BrandB>>),
               List(<<BrandNoName, NonDict, BrandB, BrandEmptyId, BrandA>>)}
BadBrands == {Invalid, Scalar, Dict(<<[key |-> <<"brands">>]>>)}

\* well-formed directories, and directories with one malformed document
DataDirs ==
    (GoodPosts \X {ShowsList} \X GoodBrands)
    \cup ({Absent} \X {Absent} \X GoodBrands)
    \cup ({UnsavablePosts} \X {Absent} \X {List(<<BrandA>>)})
    \cup (BadPosts \X {Absent} \X {List(<<BrandA>>)})
    \cup ({Absent} \X BadShows \X {List(<<BrandA>>)})
    \cup ({Absent} \X {Absent} \X BadBrands)

Init ==
    /\ \E d \in DataDirs :
          /\ posts_json = d[1]
          /\ shows_json = d[2]
          /\ brands_json = d[3]
    /\ meta_json = Absent
    /\ net \in NetModes
    /\ feedOf = [u \in RssUrls |-> Unfetched]
    /\ clock = 0
    /\ pc = "idle"
    /\ posts = List(<<>>) /\ shows = List(<<>>) /\ brands = List(<<>>)
    /\ existing_urls = {} /\ brand_items = <<>> /\ new_posts = <<>>
    /\ now_ymd = None /\ bi = 0 /\ entries = <<>> /\ ei = 0 /\ picked = 0
    /\ writes = <<>> /\ requests = <<>> /\ abort_at = "none"
    /\ runs = 0 /\ posts_before = posts_json /\ meta_before = meta_json
    /\ origin = <<>> /\ mark = 0 /\ cut = FALSE /\ changed = FALSE
    /\ prev = [done |-> FALSE, cut |-> FALSE, same |-> FALSE]

----------------------------------------------------------------------------
\* main()

\* the process is started (line 108: os.makedirs)
StartRun ==
    /\ pc = "idle"
    /\ runs < MaxRuns
    /\ runs' = runs + 1
    /\ clock' = clock + 1
    /\ pc' = "load"
    /\ posts' = List(<<>>) /\ shows' = List(<<>>) /\ brands' = List(<<>>)
    /\ existing_urls' = {} /\ brand_items' = <<>> /\ new_posts' = <<>>
    /\ now_ymd' = None /\ bi' = 0 /\ entries' = <<>> /\ ei' = 0 /\ picked' = 0
    /\ writes' = <<>> /\ requests' = <<>> /\ abort_at' = "none"
    /\ posts_before' = posts_json /\ meta_before' = meta_json
    /\ origin' = <<>> /\ mark' = 0 /\ cut' = FALSE /\ changed' = FALSE
    /\ prev' = [done |-> abort_at = "none" /\ runs > 0, cut |-> cut,
                same |-> ~changed /\ runs > 0]
    /\ UNCHANGED <<disk, upstream>>

\* an exception leaves main(): the process ends with a traceback
Raise(where) ==
    /\ pc' = "aborted"
    /\ abort_at' = where

\* lines 110-112
Load ==
    /\ pc = "load"
    /\ IF LoadRaises(posts_json) \/ LoadRaises(shows_json) \/ LoadRaises(brands_json)
       THEN /\ Raise("load")
            /\ UNCHANGED <<posts, shows, brands>>
       ELSE /\ posts' = load_json(posts_json, List(<<>>))
            /\ shows' = load_json(shows_json, List(<<>>))
            /\ brands' = load_json(brands_json, List(<<>>))
            /\ pc' = "index"
            /\ UNCHANGED abort_at
    /\ UNCHANGED <<disk, upstream, clock, existing_urls, brand_items, new_posts,
                   now_ymd, bi, entries, ei, picked, writes, requests, runs,
                   posts_before, meta_before, origin, mark, cut, changed, prev>>

\* the legacy key not looked at
UrlOfCurrentOnly(p) == Or(Get(p, "sourceUrl"), <<>>)

\* line 117
UrlOf(p) == Or(Or(Get(p, "sourceUrl"), Get(p, "source_url")), <<>>)

\* only the legacy key is read
IndexUrlsLegacyOnly(ps) ==
    {Get(ps[i], "source_url") : i \in {j \in DOMAIN ps : Truthy(Get(ps[j], "source_url"))}}

\* lines 115-119: the set the loop builds
IndexUrls(ps) ==
    {UrlOf(ps[i]) : i \in {j \in DOMAIN ps : Truthy(UrlOf(ps[j]))}}

\* lines 115-119
Index ==
    /\ pc = "index"
    /\ IF NotIterable(posts) \/ \E i \in DOMAIN Iter(posts) : ~IsDict(Iter(posts)[i])
       THEN /\ Raise("index")
            /\ UNCHANGED existing_urls
       ELSE /\ existing_urls' = IndexUrls(Iter(posts))
            /\ pc' = "brands"
            /\ UNCHANGED abort_at
    /\ UNCHANGED <<disk, upstream, clock, posts, shows, brands, brand_items,
                   new_posts, now_ymd, bi, entries, ei, picked, writes, requests,
                   runs, posts_before, meta_before, origin, mark, cut, changed,
                   prev>>

\* the name not required
BrandPairsNameless(bs) ==
    LET ok == SelectSeq(bs, LAMBDA b : IsDict(b) /\ Truthy(Get(b, "id")))
    IN  [i \in DOMAIN ok |-> <<ok[i].id, Get(ok[i], "name")>>]

\* lines 123-126: the (id, name) pairs of the well-formed brand entries
RECURSIVE BrandPairs(_)
BrandPairs(bs) ==
    IF bs = <<>> THEN <<>>
    ELSE LET b == Head(bs)
         IN  (IF IsDict(b) /\ Truthy(Get(b, "id")) /\ Truthy(Get(b, "name"))
              THEN << <<b.id, b.name>> >> ELSE <<>>) \o BrandPairs(Tail(bs))

\* lines 121-129
BrandItems ==
    /\ pc = "brands"
    /\ IF NotIterable(brands)
       THEN /\ Raise("brands")
            /\ UNCHANGED <<brand_items, new_posts, now_ymd>>
       ELSE /\ brand_items' = BrandPairs(Iter(brands))
            /\ new_posts' = <<>>
            /\ now_ymd' = iso_to_ymd(Now(clock))
            /\ pc' = "brand"
            /\ UNCHANGED abort_at
    /\ UNCHANGED <<disk, upstream, clock, posts, shows, brands, existing_urls,
                   bi, entries, ei, picked, writes, requests, runs,
                   posts_before, meta_before, origin, mark, cut, changed, prev>>

\* lines 131-137: the next brand of brand_items; its feed is fetched and parsed
FetchFeed ==
    /\ pc = "brand"
    /\ bi < Len(brand_items)
    /\ LET brand_name == brand_items[bi + 1][2]
           query == normalize_brand_query(brand_name)
           rss == google_news_rss_url(query)
       IN  /\ rss \in RssUrls
           /\ \E key \in FeedsFor(rss) :
                 /\ feedOf[rss] \in {Unfetched, key}
                 /\ feedOf' = [feedOf EXCEPT ![rss] = key]
                 /\ entries' = Entries(key)
                 /\ pc' = IF Entries(key) = <<>> THEN "brand" ELSE "entry"
           /\ requests' = Append(requests, <<"feed", rss>>)
    /\ bi' = bi + 1
    /\ ei' = 0
    /\ picked' = IF entries' = <<>> THEN picked ELSE 0
    /\ mark' = Len(new_posts)
    /\ UNCHANGED <<disk, net, clock, posts, shows, brands, existing_urls,
                   brand_items, new_posts, now_ymd, writes, abort_at, runs,
                   posts_before, meta_before, origin, cut, changed, prev>>

\* line 140: the feed's entries are exhausted
EndOfFeed ==
    /\ pc = "entry"
    /\ ei = Len(entries)
    /\ pc' = "brand"
    /\ UNCHANGED <<disk, upstream, clock, locals, writes, requests, abort_at,
                   runs, posts_before, meta_before, origin, mark, cut, changed,
                   prev>>

\* the cap compared with > instead of >=
CapReachedLate(n) == n > MAX_ITEMS_PER_BRAND

\* line 141
CapReached(n) == n >= MAX_ITEMS_PER_BRAND

\* the cap looked at only after the next entry's link was resolved
BreakAfterResolve ==
    /\ pc = "entry"
    /\ ei < Len(entries)
    /\ CapReached(picked)
    /\ pc' = "brand"
    /\ cut' = TRUE
    /\ requests' = Append(requests, <<"resolve", strip(entries[ei + 1].link)>>)
    /\ UNCHANGED <<disk, upstream, clock, locals, writes, abort_at, runs,
                   posts_before, meta_before, origin, mark, changed, prev>>

\* lines 141-142: break, entries remain
Break ==
    /\ pc = "entry"
    /\ ei < Len(entries)
    /\ CapReached(picked)
    /\ pc' = "brand"
    /\ cut' = TRUE
    /\ UNCHANGED <<disk, upstream, clock, locals, writes, requests, abort_at,
                   runs, posts_before, meta_before, origin, mark, changed, prev>>

\* lines 164-174
NewPost(post_id, brand_id, title, date, hero, final_url) ==
    [id |-> post_id, brandId |-> brand_id, title |-> title, date |-> date,
     city |-> None, season |-> None, heroImageUrl |-> hero,
     sourceUrl |-> final_url, media |-> <<>>]

\* the membership test dropped
SeenNever(final_url, urls) == FALSE

\* line 153
Seen(final_url, urls) == final_url \in urls

\* no fallback to the run's day
EntryDateNoFallback(e, today) == parse_entry_date(e)

\* line 156
EntryDate(e, today) == Or(parse_entry_date(e), today)

\* the accepted URL not added to the set
RememberNothing(urls, final_url) == urls

\* line 177
Remember(urls, final_url) == urls \cup {final_url}

\* the preview looked for at the entry's link
PreviewOfLink(link, final_url) == link

\* line 159: the URL handed to try_get_og_image
PreviewOf(link, final_url) == final_url

\* the post put at the front of the batch
BatchedFirst(batch, obj) == <<obj>> \o batch

\* line 176
Batched(batch, obj) == Append(batch, obj)

\* every entry worked on counted
PickedAfterAny(n, accepted) == n + 1

\* lines 139-178: the brand's count after an entry (picked += 1 on line 178)
PickedAfter(n, accepted) == IF accepted THEN n + 1 ELSE n

\* lines 144-178: one iteration of the entry loop below the cap
Entry ==
    /\ pc = "entry"
    /\ ei < Len(entries)
    /\ ~CapReached(picked)
    /\ ei' = ei + 1
    /\ LET e == entries[ei + 1]
           brand_id == brand_items[bi][1]
           title == strip(Or(GetAttr(e, "title", <<>>), <<>>))
           link == strip(Or(GetAttr(e, "link", <<>>), <<>>))
       IN  IF ~Truthy(title) \/ ~Truthy(link)
           THEN /\ picked' = PickedAfter(picked, FALSE)
                /\ UNCHANGED <<existing_urls, new_posts, requests, origin, pc,
                               abort_at>>
           ELSE LET final_url == resolve_final_url(link, SessionGet(net, link))
                IN  IF Seen(final_url, existing_urls)
                    THEN /\ requests' = Append(requests, <<"resolve", link>>)
                         /\ picked' = PickedAfter(picked, FALSE)
                         /\ UNCHANGED <<existing_urls, new_posts, origin, pc,
                                        abort_at>>
                    ELSE IF parse_entry_date(e) = ValueError
                    THEN /\ requests' = Append(requests, <<"resolve", link>>)
                         /\ Raise("date")
                         /\ UNCHANGED <<existing_urls, new_posts, picked, origin>>
                    ELSE LET date == EntryDate(e, now_ymd)
                             hero == try_get_og_image(
                                        SessionGet(net, PreviewOf(link, final_url)))
                             post_id == slug_id(final_url)
                             obj == NewPost(post_id, brand_id, title, date,
                                            hero, final_url)
                         IN  /\ requests' = requests \o
                                    << <<"resolve", link>>,
                                       <<"preview", PreviewOf(link, final_url)>> >>
                             /\ new_posts' = Batched(new_posts, obj)
                             /\ existing_urls' = Remember(existing_urls, final_url)
                             /\ picked' = PickedAfter(picked, TRUE)
                             /\ origin' = Append(origin,
                                    [brand |-> bi, pos |-> ei + 1, entry |-> e])
                             /\ UNCHANGED <<pc, abort_at>>
    /\ UNCHANGED <<disk, upstream, clock, posts, shows, brands, brand_items,
                   now_ymd, bi, entries, writes, runs, posts_before,
                   meta_before, mark, cut, changed, prev>>

\* line 182
Prepend(batch, old) == batch \o old

\* lines 180-183
Merge ==
    /\ pc = "brand"
    /\ bi = Len(brand_items)
    /\ IF new_posts # <<>>
       THEN IF posts.kind # "list"
            THEN /\ Raise("merge")
                 /\ UNCHANGED <<posts, disk, writes>>
            ELSE /\ posts' = List(Prepend(new_posts, posts.items))
                 /\ Stored(save_json("posts.json", posts'))
                 /\ IF Encodable(posts')
                    THEN /\ writes' = Append(writes, "posts.json")
                         /\ pc' = "meta"
                         /\ UNCHANGED abort_at
                    ELSE /\ Raise("merge")
                         /\ UNCHANGED writes
       ELSE /\ pc' = "meta"
            /\ UNCHANGED <<posts, disk, writes, abort_at>>
    /\ UNCHANGED <<upstream, clock, shows, brands, existing_urls, brand_items,
                   new_posts, now_ymd, bi, entries, ei, picked, requests, runs,
                   posts_before, meta_before, origin, mark, cut, changed, prev>>

\* postsCount taken before the merge
MetaPreMerge(updated, n_new, n_posts, n_shows, n_brands) ==
    [updatedAt |-> updated, newPostsAdded |-> n_new,
     postsCount |-> n_posts - n_new, showsCount |-> n_shows,
     brandsCount |-> n_brands]

\* lines 185-191
Meta(updated, n_new, n_posts, n_shows, n_brands) ==
    [updatedAt |-> updated, newPostsAdded |-> n_new, postsCount |-> n_posts,
     showsCount |-> n_shows, brandsCount |-> n_brands]

\* datetime.utcnow().isoformat() + "Z"
UpdatedAt(day) ==
    <<Pad(Now(day)[1], 4), "-", Pad(Now(day)[2], 2), "-", Pad(Now(day)[3], 2),
      "T", "06:00:00", "Z">>

\* lines 185-192
Summarize ==
    /\ pc = "meta"
    /\ IF NoLen(posts) \/ NoLen(shows) \/ NoLen(brands)
       THEN /\ Raise("meta")
            /\ UNCHANGED <<disk, writes>>
       ELSE /\ Stored(save_json("_meta.json",
                    Object(Meta(UpdatedAt(clock), Len(new_posts), PyLen(posts),
                                PyLen(shows), PyLen(brands)))))
            /\ writes' = Append(writes, "_meta.json")
            /\ pc' = "done"
            /\ UNCHANGED abort_at
    /\ UNCHANGED <<upstream, clock, locals, requests, runs, posts_before,
                   meta_before, origin, mark, cut, changed, prev>>

\* the process has ended (exit code 0, or a traceback)
Exit ==
    /\ pc \in {"done", "aborted"}
    /\ pc' = "idle"
    /\ UNCHANGED <<disk, upstream, clock, locals, writes, requests, abort_at,
                   runs, posts_before, meta_before, origin, mark, cut, changed,
                   prev>>

\* between two runs the upstream changes: the network condition, or the feed
\* served for one search
UpstreamChange ==
    /\ pc = "idle"
    /\ runs > 0
    /\ runs < MaxRuns
    /\ ~changed
    /\ \/ /\ net' \in NetModes \ {net}
          /\ UNCHANGED feedOf
       \/ /\ \E u \in RssUrls :
                /\ feedOf[u] # Unfetched
                /\ feedOf' = [feedOf EXCEPT ![u] = Unfetched]
          /\ UNCHANGED net
    /\ changed' = TRUE
    /\ UNCHANGED <<disk, clock, pc, locals, writes, requests, abort_at,
                   runs, posts_before, meta_before, origin, mark, cut, prev>>

Next ==
    \/ StartRun
    \/ Load
    \/ Index
    \/ BrandItems
    \/ FetchFeed
    \/ EndOfFeed
    \/ Break
    \/ Entry
    \/ Merge
    \/ Summarize
    \/ Exit
    \/ UpstreamChange

Spec == Init /\ [][Next]_vars

----------------------------------------------------------------------------
\* Helpers of the properties

\* the posts a file holds (none when it is absent)
ItemsOf(file) == IF file.kind = "absent" THEN <<>> ELSE file.items

Written(name) == \E i \in DOMAIN writes : writes[i] = name

IsSuffix(old, all) ==
    Len(old) <= Len(all) /\ SubSeq(all, Len(all) - Len(old) + 1, Len(all)) = old

\* the sourceUrl values of a file's posts, by position
HasSourceUrl(p) == IsDict(p) /\ "sourceUrl" \in DOMAIN p /\ p.sourceUrl # <<>>
                     /\ p.sourceUrl # None

\* the second of two runs against an unchanged upstream
SecondRunUnchanged == runs >= 2 /\ pc # "idle" /\ prev.same

\* the redirect-resolution requests of the run, by position in the log
Resolves == {i \in DOMAIN requests : requests[i][1] = "resolve"}

----------------------------------------------------------------------------
\* C1: the sourceUrl values of the posts in posts.json are pairwise distinct
\* (as many distinct values as posts that carry one), in every state of every
\* sequence of runs.
UniqueSourceUrl ==
    LET ps == ItemsOf(posts_json)
        with == {i \in DOMAIN ps : HasSourceUrl(ps[i])}
    IN  Cardinality({ps[i].sourceUrl : i \in with}) = Cardinality(with)

\* a second run skipped duplicates and still added posts on top of the first's
UniqueSourceUrlWitness ==
    /\ pc = "done" /\ runs = 2
    /\ Written("posts.json")
    /\ Len(ItemsOf(posts_before)) >= 2
    /\ Cardinality(Resolves) > Len(new_posts)
    /\ Len(new_posts) >= 2

\* C2 as stated: the second run against an unchanged upstream never rewrites
\* posts.json and reports newPostsAdded = 0, whatever the feed length.
IdempotentAnyFeed ==
    SecondRunUnchanged =>
        /\ ~Written("posts.json")
        /\ posts_json = posts_before
        /\ pc = "done" => meta_json.items[1].newPostsAdded = 0

\* C2 amended: the second run against an unchanged upstream adds nothing when
\* no brand loop of the first run stopped at the cap with entries left.
IdempotentBelowCap ==
    (SecondRunUnchanged /\ ~prev.cut) =>
        /\ ~Written("posts.json")
        /\ posts_json = posts_before
        /\ pc = "done" => meta_json.items[1].newPostsAdded = 0

\* the first run added posts, the second one resolved the same entries and
\* skipped them all
IdempotentBelowCapWitness ==
    /\ SecondRunUnchanged /\ ~prev.cut /\ prev.done
    /\ pc = "done"
    /\ Len(ItemsOf(posts_before)) >= 4
    /\ meta_before.kind = "object" /\ meta_before.items[1].newPostsAdded >= 4
    /\ Cardinality(Resolves) >= 4
    /\ new_posts = <<>>

\* C3: a run either completes having written _meta.json, or aborts having
\* written no document at all.
AtomicOutcome ==
    /\ pc = "done" => Written("_meta.json")
    /\ pc = "aborted" =>
          /\ writes = <<>>
          /\ posts_json = posts_before
          /\ meta_json = meta_before

\* posts.json exists and is not a list of objects
MalformedPosts(file) ==
    \/ file.kind \notin {"absent", "list"}
    \/ file.kind = "list" /\ \E i \in DOMAIN file.items : ~IsDict(file.items[i])

\* C4: a run that finds a malformed posts.json aborts during Load / Index,
\* before any network request and any save; posts.json and _meta.json stay as
\* they were.
CorruptStoreAbort ==
    (runs > 0 /\ MalformedPosts(posts_before)) =>
        /\ pc \in {"load", "index", "aborted", "idle"}
        /\ abort_at \in {"none", "load", "index"}
        /\ requests = <<>>
        /\ writes = <<>>
        /\ posts_json = posts_before
        /\ meta_json = meta_before

\* the posts of the batch accepted while brand entry b was processed
AcceptedFrom(b) == {k \in DOMAIN origin : origin[k].brand = b}

\* C5: no brand entry of the per-brand loop contributes more than
\* MAX_ITEMS_PER_BRAND posts to the batch of a run.
CapEnforced ==
    /\ Len(origin) = Len(new_posts)
    /\ \A b \in 1..Len(brand_items) :
          Cardinality(AcceptedFrom(b)) <= MAX_ITEMS_PER_BRAND

\* a feed longer than the cap, with skipped entries in it, filled the cap
CapEnforcedWitness ==
    /\ pc = "done" /\ cut
    /\ \E b \in 1..Len(brand_items) :
          Cardinality(AcceptedFrom(b)) = MAX_ITEMS_PER_BRAND
    /\ Cardinality(Resolves) > Len(new_posts)

\* C6: a run that went through all brands and accepted no post leaves
\* posts.json as it was and writes _meta.json with newPostsAdded = 0.
NoOpPersistence ==
    (pc \in {"done", "aborted"} /\ abort_at \notin {"load", "index", "brands"}
        /\ new_posts = <<>>) =>
        /\ ~Written("posts.json")
        /\ posts_json = posts_before
        /\ Written("_meta.json")
        /\ meta_json.kind = "object"
        /\ meta_json.items[1].newPostsAdded = 0

\* C7: over any sequence of runs no stored post is deleted, changed or
\* reordered: posts.json always ends with the posts the run loaded, unmodified
\* and in order, and after a completed run that accepted posts it is the batch
\* followed by the posts as loaded.
HistoryPreserved ==
    /\ IsSuffix(ItemsOf(posts_before), ItemsOf(posts_json))
    /\ (pc = "done" /\ new_posts # <<>>) =>
          posts_json = List(new_posts \o ItemsOf(posts_before))

\* C8: after a completed run _meta.json holds exactly this run's counts:
\* newPostsAdded the batch size, postsCount the loaded posts plus the batch
\* and the length of posts.json, showsCount and brandsCount the lengths of
\* shows.json and brands.json.
MetaConsistent ==
    pc = "done" =>
        /\ meta_json.kind = "object"
        /\ Len(meta_json.items) = 1
        /\ LET m == meta_json.items[1]
           IN  /\ DOMAIN m = {"updatedAt", "newPostsAdded", "postsCount",
                              "showsCount", "brandsCount"}
               /\ m.newPostsAdded = Len(origin)
               /\ m.postsCount = Len(ItemsOf(posts_before)) + m.newPostsAdded
               /\ m.postsCount = Len(ItemsOf(posts_json))
               /\ m.showsCount = Len(ItemsOf(shows_json))
               /\ m.brandsCount = Len(ItemsOf(brands_json))

\* a second run with excluded brand entries replaced the first run's metadata
MetaConsistentWitness ==
    /\ pc = "done" /\ runs = 2
    /\ meta_before.kind = "object"
    /\ meta_before.items[1].newPostsAdded > Len(new_posts)
    /\ Len(new_posts) > 0
    /\ Len(brand_items) < Len(ItemsOf(brands_json))
    /\ meta_json.items[1].showsCount = 2

TwoDigits(n) == IF n < 10 THEN "0" \o ToString(n) ELSE ToString(n)
DayOf(tm) == <<ToString(tm[1]), "-", TwoDigits(tm[2]), "-", TwoDigits(tm[3])>>
Has(e, field) == field \in DOMAIN e /\ e[field] # None

\* C9: a post from an entry with a published timestamp carries the published
\* day, one with only an updated timestamp the updated day, one with neither
\* the run's current UTC day.
FallbackDate ==
    \A k \in DOMAIN new_posts :
        LET e == origin[k].entry
            date == new_posts[k].date
        IN  /\ Has(e, "published_parsed") => date = DayOf(e.published_parsed)
            /\ (~Has(e, "published_parsed") /\ Has(e, "updated_parsed")) =>
                  date = DayOf(e.updated_parsed)
            /\ (~Has(e, "published_parsed") /\ ~Has(e, "updated_parsed")) =>
                  date = <<"2025", "-", "03", "-", TwoDigits(clock)>>

\* the second run created posts of all three kinds
FallbackDateWitness ==
    /\ pc = "done" /\ runs = 2
    /\ \E k \in DOMAIN new_posts :
          /\ ~Has(origin[k].entry, "published_parsed")
          /\ ~Has(origin[k].entry, "updated_parsed")
          /\ new_posts[k].date = <<"2025", "-", "03", "-", "02">>
    /\ \E k \in DOMAIN new_posts :
          /\ ~Has(origin[k].entry, "published_parsed")
          /\ Has(origin[k].entry, "updated_parsed")
    /\ \E k \in DOMAIN new_posts : Has(origin[k].entry, "published_parsed")

\* the preview request for a URL yields no absolute og:image
PreviewMisses(url) ==
    LET r == SessionGet(net, url)
        tag == IF r.og_property # NoTag THEN r.og_property ELSE r.og_name
    IN  \/ r.raises
        \/ ~r.ok
        \/ r.content_type = None
        \/ "text/html" \notin {r.content_type[i] : i \in DOMAIN r.content_type}
        \/ tag = NoTag
        \/ tag[1] = "/img/"

\* C10: an accepted entry whose preview extraction fails is a post with
\* heroImageUrl null, is in the dedup set, and its run does not abort.
PreviewMissTolerated ==
    pc # "idle" =>
        \A k \in DOMAIN new_posts :
            PreviewMisses(new_posts[k].sourceUrl) =>
                /\ new_posts[k].heroImageUrl = None
                /\ new_posts[k].sourceUrl \in existing_urls
                /\ pc # "aborted"

----------------------------------------------------------------------------
\* C11

\* the feed entries served to the brand at position b of brand_items
FeedOfBrand(b) ==
    Entries(feedOf[google_news_rss_url(normalize_brand_query(brand_items[b][2]))])

\* where the redirect resolution of a link ends: the final URL of the
\* response, the link itself when the request fails or reports no URL
ResolvedUrl(link) ==
    LET r == SessionGet(net, link)
    IN  IF r.raises \/ r.url = <<>> THEN link ELSE r.url

\* the k-th accepted post was built from its entry, with `title` as its title
BuiltFrom(k, title) ==
    LET p == new_posts[k]
        o == origin[k]
    IN  /\ o.entry = FeedOfBrand(o.brand)[o.pos]
        /\ DOMAIN p = {"id", "brandId", "title", "date", "city", "season",
                       "heroImageUrl", "sourceUrl", "media"}
        /\ p.brandId = brand_items[o.brand][1]
        /\ p.title = title /\ p.title # <<>>
        /\ p.sourceUrl = ResolvedUrl(strip(o.entry.link))
        /\ p.id = <<"sha1[:16]">> \o p.sourceUrl
        /\ p.city = None /\ p.season = None /\ p.media = <<>>

\* one well-formed brand b1, no stored posts, a feed of one entry
SingleEntryRun ==
    /\ pc \in {"done", "aborted"}
    /\ brands_json = List(<<BrandA>>)
    /\ shows_json.kind \in {"absent", "list"}
    /\ posts_before \in {Absent, List(<<>>)}
    /\ Len(entries) = 1
    /\ ~Has(entries[1], "published_parsed") /\ ~Has(entries[1], "updated_parsed")
    /\ try_get_og_image(SessionGet(net, ResolvedUrl(strip(entries[1].link)))) = None

\* the outcome of that run: one post on disk, and the summary of it
SingleEntryOutcome(title) ==
    /\ pc = "done"
    /\ Len(posts_json.items) = 1
    /\ posts_json.items[1].brandId = <<"b1">>
    /\ posts_json.items[1].title = title
    /\ posts_json.items[1].sourceUrl = ResolvedUrl(strip(entries[1].link))
    /\ posts_json.items[1].id = <<"sha1[:16]">> \o posts_json.items[1].sourceUrl
    /\ posts_json.items[1].heroImageUrl = None
    /\ posts_json.items[1].city = None /\ posts_json.items[1].season = None
    /\ posts_json.items[1].media = <<>>
    /\ meta_json.items[1].newPostsAdded = 1
    /\ meta_json.items[1].postsCount = 1

\* C11 as stated: every post a run has created when a brand's entry loop has
\* ended carries the id of the brand whose
\* feed yielded its entry, the entry's title as delivered, the resolved URL of
\* the entry's link (the link itself when resolution fails), the id derived
\* from that sourceUrl, null city and season and an empty media list; and a
\* run with one brand b1, no stored posts and a feed of one entry without
\* timestamp and preview ends with exactly that one post and a summary of
\* newPostsAdded 1, postsCount 1.
PostBuiltRawTitle ==
    pc \notin {"idle", "entry"} =>
        /\ \A k \in DOMAIN new_posts : BuiltFrom(k, origin[k].entry.title)
        /\ SingleEntryRun => SingleEntryOutcome(entries[1].title)

\* C11, amended: the same, with the title being the entry's title with its
\* leading and trailing whitespace removed.
PostBuilt ==
    pc \notin {"idle", "entry"} =>
        /\ \A k \in DOMAIN new_posts : BuiltFrom(k, strip(origin[k].entry.title))
        /\ SingleEntryRun => SingleEntryOutcome(strip(entries[1].title))

\* the one-entry run has ended with its post, the resolution having reported
\* no URL so that the post keeps the entry's link
PostBuiltWitness ==
    /\ SingleEntryRun
    /\ pc = "done"
    /\ Len(new_posts) = 1
    /\ new_posts[1].title = <<"T", "4">>
    /\ new_posts[1].sourceUrl = Link(4)

----------------------------------------------------------------------------
\* C12

\* a brand entry that is an object with a non-empty id and a non-empty name
WellFormedBrand(b) ==
    /\ IsDict(b)
    /\ "id" \in DOMAIN b /\ b.id # <<>> /\ b.id # None
    /\ "name" \in DOMAIN b /\ b.name # <<>> /\ b.name # None

\* the positions of the well-formed entries of the loaded Brand collection
UsableBrands ==
    IF brands.kind = "list"
    THEN {j \in DOMAIN brands.items : WellFormedBrand(brands.items[j])}
    ELSE {}

\* the feed requests of the run, by position in the log
Searches == {i \in DOMAIN requests : requests[i][1] = "feed"}

\* the brand loop has been set up in this run
BrandsChosen ==
    \/ pc \in {"brand", "entry", "meta", "done"}
    \/ pc = "aborted" /\ abort_at \in {"merge", "meta"}

\* the brand loop has been set up and no entry loop is under way: the run is
\* about to search a brand, or has searched them all
BetweenBrands == BrandsChosen /\ pc # "entry"

\* C12: a brand entry that is not an object or lacks a non-empty id or name
\* is never searched and never yields a post: the brands a run works on are
\* exactly the well-formed entries, every search is for the name of one of
\* them, every post carries the id of one of them, and a collection with
\* partial entries neither aborts at the brand selection nor keeps a
\* well-formed brand from being searched.
PartialBrandsExcluded ==
    /\ pc = "aborted" /\ abort_at = "brands" => brands.kind # "list"
    /\ BetweenBrands =>
        /\ Len(brand_items) = Cardinality(UsableBrands)
        /\ \A j \in UsableBrands : \E k \in DOMAIN brand_items :
              brand_items[k] = <<brands.items[j].id, brands.items[j].name>>
        /\ Cardinality(Searches) <= Cardinality(UsableBrands)
        /\ \A i \in Searches : \E j \in UsableBrands :
              requests[i][2]
                  = google_news_rss_url(normalize_brand_query(brands.items[j].name))
        /\ \A k \in DOMAIN new_posts : \E j \in UsableBrands :
              new_posts[k].brandId = brands.items[j].id
        /\ pc \in {"meta", "done"} =>
              Cardinality(Searches) = Cardinality(UsableBrands)

\* a run over a collection with a non-object, a nameless and an id-less entry
\* ended with posts of both well-formed brands
PartialBrandsExcludedWitness ==
    /\ pc = "done"
    /\ Len(brands.items) = 5
    /\ Cardinality(UsableBrands) = 2
    /\ \E k \in DOMAIN new_posts : new_posts[k].brandId = <<"b1">>
    /\ \E k \in DOMAIN new_posts : new_posts[k].brandId = <<"b2">>

----------------------------------------------------------------------------
\* C13

\* C13: no step of any run changes shows.json or brands.json, and the only
\* files a run writes are posts.json and _meta.json.
InputsReadOnly ==
    [][/\ shows_json' = shows_json
       /\ brands_json' = brands_json
       /\ \A i \in DOMAIN writes' : writes'[i] \in {"posts.json", "_meta.json"}]_vars

\* a run wrote both of its outputs next to a non-empty shows.json and
\* brands.json
InputsReadOnlyWitness ==
    /\ pc = "done"
    /\ writes = <<"posts.json", "_meta.json">>
    /\ shows_json = ShowsList
    /\ brands_json = List(<<BrandA, BrandB>>)
    /\ posts_json # posts_before
    /\ meta_json # meta_before

----------------------------------------------------------------------------
\* C14

\* C14: once the three collections have been loaded, the run does not abort:
\* whatever the network answers it searches every brand left, an empty feed
\* adding no post and not stopping the brands after it, and it ends having
\* written _meta.json exactly once, as its last write.
RunReachesSummarize ==
    /\ pc = "aborted" => abort_at = "load"
    /\ pc = "done" =>
          /\ Cardinality(Searches) = Len(brand_items)
          /\ writes # <<>>
          /\ writes[Len(writes)] = "_meta.json"
          /\ Cardinality({i \in DOMAIN writes : writes[i] = "_meta.json"}) = 1
    /\ pc = "brand" /\ bi > 0 /\ entries = <<>> => Len(new_posts) = mark

----------------------------------------------------------------------------
\* C15

\* an entry the loop does not skip for an empty title or link
Usable(e) ==
    /\ Has(e, "title") /\ strip(e.title) # <<>>
    /\ Has(e, "link") /\ strip(e.link) # <<>>

\* the URLs the first n entries of brand b's feed resolve to
FeedUrlsUpTo(b, n) ==
    LET feed == FeedOfBrand(b)
    IN  {ResolvedUrl(strip(feed[i].link)) : i \in {j \in 1..n : Usable(feed[j])}}

\* the last entry of brand b's feed the loop worked on: the one that filled
\* the cap, the feed's last one otherwise
LastPos(b) ==
    IF Cardinality(AcceptedFrom(b)) >= MAX_ITEMS_PER_BRAND
    THEN LET at == {origin[k].pos : k \in AcceptedFrom(b)}
         IN  CHOOSE n \in at : \A m \in at : m <= n
    ELSE Len(FeedOfBrand(b))

\* every brand of the run has been searched
AllSearched == BrandsChosen /\ pc # "entry" /\ bi = Len(brand_items)

\* the URLs that were in the dedup set before the run accepted anything
Seeded == existing_urls \ {new_posts[k].sourceUrl : k \in DOMAIN new_posts}

PostsOf(u) == {k \in DOMAIN new_posts : new_posts[k].sourceUrl = u}

\* C15 as stated: a URL not stored before the run that links of a brand's
\* feed resolve to gets exactly one post in the run, however many entries and
\* brands lead to it, and the post carries the id of the first brand, in the
\* order of the Brand collection, whose feed contains such a link.
FirstListedBrandWins ==
    AllSearched =>
        \A b \in DOMAIN brand_items :
            \A u \in FeedUrlsUpTo(b, Len(FeedOfBrand(b))) \ Seeded :
                LET made == PostsOf(u)
                IN  /\ Cardinality(made) = 1
                    /\ \A k \in made : origin[k].brand <= b

\* C15, amended: the same of the entries a brand's loop worked on before it
\* stopped at the cap: such a URL gets exactly one post, carrying the id of
\* the first brand in collection order whose loop came to a link resolving to
\* it.
FirstBrandWins ==
    AllSearched =>
        \A b \in DOMAIN brand_items :
            \A u \in FeedUrlsUpTo(b, LastPos(b)) \ Seeded :
                LET made == PostsOf(u)
                IN  /\ Cardinality(made) = 1
                    /\ \A k \in made : origin[k].brand <= b

\* two brands were searched and the second brand's loop came to a link
\* resolving to a URL the first brand had got a post for in this run
FirstBrandWinsWitness ==
    /\ AllSearched
    /\ pc = "done"
    /\ Len(brand_items) = 2
    /\ \E k \in DOMAIN new_posts :
          /\ origin[k].brand = 1
          /\ new_posts[k].sourceUrl \in FeedUrlsUpTo(2, LastPos(2))
    /\ \E k \in DOMAIN new_posts : origin[k].brand = 2

----------------------------------------------------------------------------
\* C16

\* the URLs in the dedup set when the loop of the current brand began
KnownBefore ==
    existing_urls \ {new_posts[k].sourceUrl : k \in (mark + 1)..Len(new_posts)}

\* the URLs the current brand's feed leads to that were fresh when its loop
\* began
Fresh ==
    {ResolvedUrl(strip(entries[i].link)) : i \in {j \in DOMAIN entries : Usable(entries[j])}}
        \ KnownBefore

\* C16: the brand's count is the number of entries accepted from its feed,
\* whatever was skipped on the way (empty title, empty link, URL already
\* seen); when its loop has ended, a feed leading to at least
\* MAX_ITEMS_PER_BRAND fresh URLs has got exactly MAX_ITEMS_PER_BRAND posts;
\* and once the count has reached the cap no later entry of the feed is
\* worked on.
CapCountsAccepted ==
    BrandsChosen /\ bi > 0 /\ entries # <<>> =>
        /\ picked = Len(new_posts) - mark
        /\ picked = Cardinality(AcceptedFrom(bi))
        /\ pc = "brand" /\ Cardinality(Fresh) >= MAX_ITEMS_PER_BRAND
              => picked = MAX_ITEMS_PER_BRAND
        /\ picked >= MAX_ITEMS_PER_BRAND => ei = origin[Len(origin)].pos

\* the second brand's loop skipped an entry with an empty title, one with an
\* empty link and one whose URL the first brand had taken, and still took
\* MAX_ITEMS_PER_BRAND entries, stopping with an entry of the feed left
CapCountsAcceptedWitness ==
    /\ pc = "done"
    /\ cut /\ ei < Len(entries)
    /\ bi = 2
    /\ Len(entries) = Len(Junk) + MaxArticles
    /\ Cardinality(AcceptedFrom(2)) = MAX_ITEMS_PER_BRAND
    /\ \E k \in AcceptedFrom(1) :
          new_posts[k].sourceUrl \in FeedUrlsUpTo(2, Len(FeedOfBrand(2)))

----------------------------------------------------------------------------
\* C17

\* the position in brands.json of the brand at position b of brand_items
ListedAt(b) == CHOOSE j \in UsableBrands : brands.items[j].id = brand_items[b][1]

\* the k-th post of the batch is the one made of the entry at position
\* origin[k].pos of the feed of brand origin[k].brand
MadeOf(k) ==
    LET p == new_posts[k]
        o == origin[k]
    IN  /\ o.entry = FeedOfBrand(o.brand)[o.pos]
        /\ p.brandId = brand_items[o.brand][1]
        /\ p.title = strip(o.entry.title)
        /\ p.sourceUrl = ResolvedUrl(strip(o.entry.link))

\* C17: the batch of a run is ordered by the brands' order in brands.json and,
\* within a brand, by the entries' order in its feed; and the batch, in that
\* order, is the head of the posts.json the run saves.
BatchOrdered ==
    BetweenBrands =>
        /\ Len(origin) = Len(new_posts)
        /\ \A k \in DOMAIN new_posts : MadeOf(k)
        /\ \A b \in 1..(Len(brand_items) - 1) : ListedAt(b) < ListedAt(b + 1)
        /\ \A k \in 1..(Len(new_posts) - 1) :
              \/ origin[k].brand < origin[k + 1].brand
              \/ /\ origin[k].brand = origin[k + 1].brand
                 /\ origin[k].pos < origin[k + 1].pos
        /\ Written("posts.json") =>
              SubSeq(posts_json.items, 1, Len(new_posts)) = new_posts

\* a run over a collection listing Bolt before Acme saved posts of both, Bolt's
\* first, in front of the posts it had
BatchOrderedWitness ==
    /\ pc = "done"
    /\ Written("posts.json")
    /\ Len(brands.items) = 5
    /\ Len(posts_json.items) > Len(new_posts)
    /\ Len(new_posts) >= 3
    /\ new_posts[1].brandId = <<"b2">> /\ new_posts[2].brandId = <<"b2">>
    /\ new_posts[Len(new_posts)].brandId = <<"b1">>

----------------------------------------------------------------------------
\* C18

\* the preview requests of the run, by position in the log
Previews == {i \in DOMAIN requests : requests[i][1] = "preview"}

\* the requests made since the current brand's feed was fetched
SinceSearch(kind) ==
    LET last == IF Searches = {} THEN 0
                ELSE CHOOSE m \in Searches : \A j \in Searches : j <= m
    IN  {i \in (last + 1)..Len(requests) : requests[i][1] = kind}

\* C18: a preview request directly follows the redirect resolution of the
\* same entry and asks for the URL that resolution gave; it is made only for
\* a URL that passed the dedup check (not stored before the run, no earlier
\* preview in the run), once per accepted post; a resolution that found a
\* known URL is followed by no preview; and an entry gets one resolution
\* request when its title and link are non-empty and no request otherwise.
CallOrder ==
    BetweenBrands =>
        LET seeded == Seeded
            asked == Previews
        IN  /\ \A i \in asked :
                  /\ i > 1
                  /\ requests[i - 1][1] = "resolve"
                  /\ requests[i][2] = ResolvedUrl(requests[i - 1][2])
                  /\ requests[i][2] \notin seeded
            /\ Cardinality({requests[i][2] : i \in asked}) = Cardinality(asked)
            /\ Cardinality(asked) = Len(new_posts)
            /\ \A i \in Resolves \ {j - 1 : j \in asked} :
                  LET u == ResolvedUrl(requests[i][2])
                  IN  \/ u \in seeded
                      \/ \E j \in asked : j < i /\ requests[j][2] = u
            /\ bi > 0 =>
                  Cardinality(SinceSearch("resolve"))
                      = Cardinality({j \in 1..ei : Usable(entries[j])})

\* a loop over a feed with unusable entries has ended: one resolution was
\* followed by the preview of another URL than the link, another by no
\* preview
CallOrderWitness ==
    /\ pc = "done"
    /\ Len(entries) = Len(Junk) + MaxArticles
    /\ \E i \in Previews : requests[i][2] # requests[i - 1][2]
    /\ \E i \in Resolves : i + 1 \in Resolves
    /\ Cardinality(SinceSearch("resolve")) < ei

----------------------------------------------------------------------------
\* C19

\* the URL a stored post is known by: its sourceUrl, or its source_url when
\* it has no sourceUrl; <<>> when it has neither
KnownUrl(p) ==
    IF Has(p, "sourceUrl") /\ p.sourceUrl # <<>> THEN p.sourceUrl
    ELSE IF Has(p, "source_url") /\ p.source_url # <<>> THEN p.source_url
    ELSE <<>>

\* the stored posts that keep their URL under the legacy name only
LegacyPosts ==
    {i \in DOMAIN ItemsOf(posts_before) :
        /\ ~Has(ItemsOf(posts_before)[i], "sourceUrl")
        /\ Has(ItemsOf(posts_before)[i], "source_url")}

\* the stored posts without a URL under either name
UrlLessPosts ==
    {i \in DOMAIN ItemsOf(posts_before) :
        IsDict(ItemsOf(posts_before)[i]) /\ KnownUrl(ItemsOf(posts_before)[i]) = <<>>}

\* C19: the URL a stored post carries under the legacy name source_url is in
\* the dedup set from Index on, and no post is made for it in the run; a
\* stored post with no URL under either name adds nothing to the set, and a
\* store of objects never makes Index raise.
LegacySeeds ==
    /\ pc = "aborted" /\ abort_at = "index" =>
          \/ posts.kind # "list"
          \/ \E i \in DOMAIN posts.items : ~IsDict(posts.items[i])
    /\ pc = "brands" \/ BetweenBrands =>
          /\ \A i \in LegacyPosts :
                /\ ItemsOf(posts_before)[i].source_url \in existing_urls
                /\ \A k \in DOMAIN new_posts :
                      new_posts[k].sourceUrl # ItemsOf(posts_before)[i].source_url
          /\ <<>> \notin existing_urls /\ None \notin existing_urls
          /\ pc = "brands" =>
                existing_urls
                    = {KnownUrl(ItemsOf(posts_before)[i]) :
                          i \in DOMAIN ItemsOf(posts_before) \ UrlLessPosts}

\* a run over a store with a legacy post and a post without URL ended: the
\* entry leading to the legacy post's URL was resolved and skipped, others
\* were accepted
LegacySeedsWitness ==
    /\ pc = "done"
    /\ LegacyPosts # {} /\ UrlLessPosts # {}
    /\ net = "direct"
    /\ \E i \in Resolves :
          /\ \E l \in LegacyPosts :
                ResolvedUrl(requests[i][2]) = ItemsOf(posts_before)[l].source_url
          /\ i + 1 \notin Previews
    /\ new_posts # <<>>

----------------------------------------------------------------------------
\* C20

\* the current brand's loop has accepted MAX_ITEMS_PER_BRAND entries
AtCap == bi > 0 /\ Len(new_posts) >= mark + MAX_ITEMS_PER_BRAND

\* C20: after the entry that fills a brand's cap nothing more is requested for
\* that brand's feed, the preview of that entry being the last request until
\* the next brand is searched; up to there every entry with a non-empty title
\* and link, duplicates included, got its redirect resolution requested.
NoRequestsAfterCap ==
    /\ BrandsChosen /\ AtCap =>
          /\ requests[Len(requests)]
                = <<"preview", new_posts[mark + MAX_ITEMS_PER_BRAND].sourceUrl>>
          /\ ei = origin[mark + MAX_ITEMS_PER_BRAND].pos
    /\ BetweenBrands /\ bi > 0 =>
          /\ LET resolved == {requests[i][2] : i \in SinceSearch("resolve")}
             IN  \A j \in 1..ei :
                    Usable(entries[j]) => strip(entries[j].link) \in resolved
          /\ Cardinality(SinceSearch("preview")) = Len(new_posts) - mark

\* a loop has stopped at the cap with an entry of the feed left, after it had
\* resolved and skipped duplicates
NoRequestsAfterCapWitness ==
    /\ pc = "brand"
    /\ cut
    /\ AtCap
    /\ ei < Len(entries)
    /\ Usable(entries[ei + 1])
    /\ Cardinality(SinceSearch("resolve")) > MAX_ITEMS_PER_BRAND

====
